---- MODULE Spec2Model ----
(***************************************************************************)
(* A model of the splat viewer: the PLY loader (loadPly), the application  *)
(* state kept by App (handleLoad and the control panel) and the scene kept *)
(* by Viewer (the effects and the per-frame callback).                     *)
(*                                                                         *)
(* Numbers.  A coordinate is an integer counting quanta of 2^-21, a value  *)
(* a float32 holds exactly, so that differences below and above the 1e-6   *)
(* threshold of the elevation pass both occur.  Results of exp, sigmoid    *)
(* and of divisions are kept as the terms the code computes them from.     *)
(***************************************************************************)
EXTENDS Integers, Sequences, FiniteSets, TLC

\* ------------------------------------------------------------------ bounds
MaxPoints == 3      \* records of the largest generated file
MaxLoads == 2       \* handleLoad calls of one behaviour
MaxInFlight == 2    \* loads awaiting their FileReader at one time

\* --------------------------------------------------------------- numbers
QuantaPerUnit == 2 ^ 21
Q(n) == n * QuantaPerUnit

\* `Infinity`, the start value of minY and of an empty THREE.Box3: larger
\* than every coordinate of the model.
Infinity == 10 ^ 9

\* parseInt's NaN, and a number
NaN == [nan |-> TRUE, v |-> 0]
Num(n) == [nan |-> FALSE, v |-> n]

\* 1024 * 10: the prefix of the buffer decoded as header text
ScanWindow == 1024 * 10

\* ------------------------------------------------------- the header text
\* A header line.  kind is what its text starts with; tok is the third
\* word of an `element vertex` line as characters; hasName is false when
\* the line holds no third word (split(' ') leaves name undefined).
HeaderLine(kind, tok, type, name, len) ==
  [kind |-> kind, tok |-> tok, type |-> type, name |-> name,
   hasName |-> (kind = "property"), len |-> len]

PlyLine == HeaderLine("ply", <<>>, "", "", 0)
FormatBle == HeaderLine("format_ble", <<>>, "", "", 0)
FormatAscii == HeaderLine("format_other", <<>>, "", "", 0)
ElementVertex(tok) == HeaderLine("element_vertex", tok, "", "", 0)
Property(type, name) == HeaderLine("property", <<>>, type, name, 0)
Comment(len) == HeaderLine("comment", <<>>, "", "", len)
EndHeader == HeaderLine("end_header", <<>>, "", "", 0)

\* the number of characters of a line, without its newline
LineLen(l) ==
  CASE l.kind = "ply" -> Len("ply")
    [] l.kind = "format_ble" -> Len("format binary_little_endian 1.0")
    [] l.kind = "format_other" -> Len("format ascii 1.0")
    [] l.kind = "element_vertex" ->
         Len("element vertex") + (IF l.tok = <<>> THEN 0 ELSE 1 + Len(l.tok))
    [] l.kind = "property" ->
         Len("property ") + Len(l.type) + (IF l.hasName THEN 1 + Len(l.name) ELSE 0)
    [] l.kind = "end_header" -> Len("end_header")
    [] OTHER -> l.len

\* the offset of line i in the text
RECURSIVE LineStart(_, _)
LineStart(lines, i) ==
  IF i = 1 THEN 0 ELSE LineStart(lines, i - 1) + LineLen(lines[i - 1]) + 1

\* the bytes of the header as the file holds it: every line and its newline
HeaderBytes(lines) == LineStart(lines, Len(lines) + 1)

\* the size in bytes of a property of the file (the PLY format's own sizes)
FileTypeSize(type) ==
  CASE type = "uchar" -> 1
    [] type = "double" -> 8
    [] OTHER -> 4

RECURSIVE FileOffset(_, _)
FileOffset(props, k) ==
  IF k = 1 THEN 0 ELSE FileOffset(props, k - 1) + FileTypeSize(props[k - 1].type)

FileStride(props) == FileOffset(props, Len(props) + 1)

\* the property lines of a header, in order
FileProps(lines) == SelectSeq(lines, LAMBDA l : l.kind = "property")

\* file.byteLength
ByteLength(file) ==
  HeaderBytes(file.lines) + Len(file.payload) * FileStride(FileProps(file.lines))
    + file.pad

\* headerText.indexOf('end_header'): the offset of the first end_header
\* line that lies inside the decoded prefix, -1 when there is none
MarkerLines(lines) ==
  {i \in 1..Len(lines) :
     /\ lines[i].kind = "end_header"
     /\ LineStart(lines, i) + Len("end_header") <= ScanWindow}

IndexOfMarker(lines) ==
  IF MarkerLines(lines) = {} THEN -1
  ELSE LineStart(lines, CHOOSE i \in MarkerLines(lines) :
                          \A j \in MarkerLines(lines) : i <= j)

HeaderEnd(lines) == IndexOfMarker(lines) + Len("end_header") + 1

\* the first k characters of a line longer than k: what the startsWith
\* tests and split(' ') still find in it.  A cut inside or before the type
\* of a property line leaves name undefined.
Truncate(l, k) ==
  CASE l.kind = "property" /\ k >= Len("property") ->
         [l EXCEPT !.hasName = k >= Len("property ") + Len(l.type) + 1,
                   !.name = ""]
    [] l.kind = "element_vertex" /\ k >= Len("element vertex") ->
         [l EXCEPT !.tok = SubSeq(l.tok, 1, k - Len("element vertex "))]
    [] l.kind = "format_ble" /\ k >= Len("format binary_little_endian") -> l
    [] OTHER -> Comment(k)

\* headerText.substring(0, headerEnd).split('\n'), without the empty last
\* string: the lines from line i on that start before offset n
RECURSIVE SplitPrefix(_, _, _)
SplitPrefix(lines, i, n) ==
  IF i > Len(lines) \/ LineStart(lines, i) >= n THEN <<>>
  ELSE LET k == n - LineStart(lines, i)
       IN  IF LineLen(lines[i]) <= k
           THEN <<lines[i]>> \o SplitPrefix(lines, i + 1, n)
           ELSE <<Truncate(lines[i], k)>>

HeaderLines(lines) == SplitPrefix(lines, 1, HeaderEnd(lines))

\* ------------------------------------------------------------- parseInt
DecDigits == <<"0", "1", "2", "3", "4", "5", "6", "7", "8", "9">>
HexDigits == DecDigits \o <<"a", "b", "c", "d", "e", "f">>

DigitValue(digits, c) ==
  IF \E d \in 1..Len(digits) : digits[d] = c
  THEN (CHOOSE d \in 1..Len(digits) : digits[d] = c) - 1
  ELSE -1

\* the value of the longest run of digits of s from position i on, after
\* acc; seen is whether a digit was read
RECURSIVE ParseDigits(_, _, _, _, _)
ParseDigits(digits, s, i, acc, seen) ==
  IF i <= Len(s) /\ DigitValue(digits, s[i]) >= 0
  THEN ParseDigits(digits, s, i + 1, acc * Len(digits) + DigitValue(digits, s[i]), TRUE)
  ELSE IF seen THEN Num(acc) ELSE NaN

\* parseInt(s) with no radix: a sign, then 0x and hexadecimal digits or
\* decimal digits, up to the first other character; NaN when there is no
\* digit (and for undefined, the empty sequence here)
ParseInt(s) ==
  LET neg == Len(s) >= 1 /\ s[1] = "-"
      body == IF Len(s) >= 1 /\ s[1] \in {"-", "+"} THEN Tail(s) ELSE s
      hex == Len(body) >= 2 /\ body[1] = "0" /\ body[2] \in {"x", "X"}
      r == IF hex THEN ParseDigits(HexDigits, body, 3, 0, FALSE)
           ELSE ParseDigits(DecDigits, body, 1, 0, FALSE)
  IN  IF r.nan THEN NaN ELSE Num(IF neg THEN 0 - r.v ELSE r.v)

\* ------------------------------------------------- the header line loop
\* the bytes the loop adds to currentOffset for a property of a type
TypeSize(type) ==
  IF type \in {"float", "int32"} THEN 4
  ELSE IF type = "uchar" THEN 1
  ELSE IF type = "double" THEN 8
  ELSE 4

HeaderStart ==
  [pointCount |-> Num(0), isBinary |-> FALSE, properties |-> <<>>,
   currentOffset |-> 0, typeError |-> FALSE, linesParsed |-> 0]

\* one turn of `for (const line of headerLines)`
ParseLine(h, line) ==
  LET n == [h EXCEPT !.linesParsed = @ + 1]
  IN  IF line.kind = "element_vertex"
      THEN [n EXCEPT !.pointCount = ParseInt(line.tok)]
      ELSE IF line.kind = "property"
      THEN IF ~line.hasName
           THEN [n EXCEPT !.typeError = TRUE]       \* name.trim() of undefined
           ELSE [n EXCEPT
                   !.properties = Append(@, [type |-> line.type, name |-> line.name,
                                             offset |-> h.currentOffset]),
                   !.currentOffset = @ + TypeSize(line.type)]
      ELSE IF line.kind = "format_ble"
      THEN [n EXCEPT !.isBinary = TRUE]
      ELSE n

RECURSIVE ParseHeader(_, _, _)
ParseHeader(lines, i, h) ==
  IF i > Len(lines) \/ h.typeError THEN h
  ELSE ParseHeader(lines, i + 1, ParseLine(h, lines[i]))

\* --------------------------------------------------- the property scheme
\* new Map(properties.map(p => [p.name, p])): has, and get (the last
\* property declared under a name)
PropMapHas(props, name) == \E k \in 1..Len(props) : props[k].name = name

PropMapGet(props, name) ==
  props[CHOOSE k \in 1..Len(props) :
          /\ props[k].name = name
          /\ \A j \in 1..Len(props) : props[j].name = name => j <= k]

hasPosition(props) == \A p \in {"x", "y", "z"} : PropMapHas(props, p)

hasClassicColor(props) == \A p \in {"red", "green", "blue"} : PropMapHas(props, p)

hasSHColor(props) == \A p \in {"f_dc_0", "f_dc_1", "f_dc_2"} : PropMapHas(props, p)

hasSplatOffByOne(props) ==
  /\ \A p \in {"scale_1", "scale_2", "scale_3"} : PropMapHas(props, p)
  /\ \A p \in {"rot_0", "rot_1", "rot_2", "rot_3"} : PropMapHas(props, p)

hasSplat(props) ==
  /\ \A p \in {"scale_0", "scale_1", "scale_2"} : PropMapHas(props, p)
  /\ \A p \in {"rot_0", "rot_1", "rot_2", "rot_3"} : PropMapHas(props, p)

useSHColorOnlyAlone(props) == hasSHColor(props) /\ ~hasClassicColor(props)

useSHColor(props) == hasSHColor(props)

\* ----------------------------------------------------------- the decoder
\* the terms the decoder stores
Div255(b) == [fn |-> "div255", arg |-> b]
Sigmoid(v) == [fn |-> "sigmoid", arg |-> v]
Exp(v) == [fn |-> "exp", arg |-> v]
\* q / Math.sqrt(L2)
Normalized(q, normSq) == [num |-> q, normSq |-> normSq]
\* a quotient num / den of the elevation pass, and its constant 0.5
Ratio(num, den) == [num |-> num, den |-> den]
Half == Ratio(1, 2)

\* the names the record loop reads
NeededProps(props) ==
  {"x", "y", "z"}
    \cup (IF useSHColor(props) THEN {"f_dc_0", "f_dc_1", "f_dc_2"}
          ELSE {"red", "green", "blue"})
    \cup (IF hasSplat(props)
          THEN {"scale_0", "scale_1", "scale_2", "rot_0", "rot_1", "rot_2", "rot_3"}
          ELSE {})

\* the bytes getFloat32 and getUint8 read
ReadSize(name) == IF name \in {"red", "green", "blue"} THEN 1 ELSE 4

\* new DataView(buffer, headerEnd).byteLength
ViewLength(file) == ByteLength(file) - HeaderEnd(file.lines)

\* whether the reads of record i stay inside the DataView (a read past its
\* end throws a RangeError)
RecordInRange(file, props, stride, i) ==
  \A name \in NeededProps(props) :
    i * stride + PropMapGet(props, name).offset + ReadSize(name) <= ViewLength(file)

\* dataView.getFloat32 / getUint8 at byteOffset: the value the file holds
\* in the cell that starts there, 0 in the padding after the records
GetValue(file, byteOffset, size) ==
  LET fprops == FileProps(file.lines)
      p == HeaderEnd(file.lines) + byteOffset - HeaderBytes(file.lines)
      i == p \div FileStride(fprops)
      r == p % FileStride(fprops)
      cells == {k \in 1..Len(fprops) :
                  FileOffset(fprops, k) = r /\ FileTypeSize(fprops[k].type) = size}
  IN  IF p >= 0 /\ i < Len(file.payload) /\ cells # {}
      THEN file.payload[i + 1][CHOOSE k \in cells : TRUE]
      ELSE 0

\* the value read for a property of record i
Read(file, props, stride, i, name) ==
  GetValue(file, i * stride + PropMapGet(props, name).offset, ReadSize(name))

Min(S) == CHOOSE m \in S : \A n \in S : m <= n
Max(S) == CHOOSE m \in S : \A n \in S : m >= n

\* minY and maxY after the record loop over the y values ys
MinY(ys) == Min({Infinity} \cup {ys[i] : i \in 1..Len(ys)})
MaxY(ys) == Max({0 - Infinity} \cup {ys[i] : i \in 1..Len(ys)})

\* 1e-6 in quanta: a whole number of quanta exceeds 1e-6 * 2^21 = 2.097...
\* exactly when it exceeds 2
Epsilon == QuantaPerUnit \div (10 ^ 6)

ElevationsNoOffset(ys) ==
  LET yRange == MaxY(ys) - MinY(ys)
  IN  [i \in 1..Len(ys) |->
         IF yRange > Epsilon THEN Ratio(ys[i], yRange) ELSE Half]

\* elevations after the second pass, from the raw y values of the first
Elevations(ys) ==
  LET yRange == MaxY(ys) - MinY(ys)
  IN  [i \in 1..Len(ys) |->
         IF yRange > Epsilon THEN Ratio(ys[i] - MinY(ys), yRange) ELSE Half]

\* a box that starts at the origin instead of empty
BoundingBoxFromOrigin(pos) ==
  LET n == Len(pos) \div 3
      axis(a) == {pos[3 * i + a] : i \in 0..(n - 1)}
  IN  [min |-> [a \in 1..3 |-> Min({0} \cup axis(a))],
       max |-> [a \in 1..3 |-> Max({0} \cup axis(a))]]

\* new THREE.Box3() expanded by every point
BoundingBox(pos) ==
  LET n == Len(pos) \div 3
      axis(a) == {pos[3 * i + a] : i \in 0..(n - 1)}
  IN  [min |-> [a \in 1..3 |-> Min({Infinity} \cup axis(a))],
       max |-> [a \in 1..3 |-> Max({0 - Infinity} \cup axis(a))]]

\* the rotation stored in file order: rot_0, rot_1, rot_2, rot_3
RotationFileOrder(file, props, stride, i) ==
  LET qx == Read(file, props, stride, i, "rot_0")
      qy == Read(file, props, stride, i, "rot_1")
      qz == Read(file, props, stride, i, "rot_2")
      qw == Read(file, props, stride, i, "rot_3")
      L2 == qx * qx + qy * qy + qz * qz + qw * qw
  IN  <<Normalized(qx, L2), Normalized(qy, L2), Normalized(qz, L2), Normalized(qw, L2)>>

\* the stored rotation of record i: the raw rot_3, rot_0, rot_1, rot_2,
\* each over the norm of the four
Rotation(file, props, stride, i) ==
  LET qx == Read(file, props, stride, i, "rot_0")
      qy == Read(file, props, stride, i, "rot_1")
      qz == Read(file, props, stride, i, "rot_2")
      qw == Read(file, props, stride, i, "rot_3")
      L2 == qx * qx + qy * qy + qz * qz + qw * qw
  IN  <<Normalized(qw, L2), Normalized(qx, L2), Normalized(qy, L2), Normalized(qz, L2)>>

\* the dataset of a decode of n records that threw nothing
Decode(file, props, stride, pointCount, n) ==
  LET axes == <<"x", "y", "z">>
      sh == <<"f_dc_0", "f_dc_1", "f_dc_2">>
      rgb == <<"red", "green", "blue">>
      sc == <<"scale_0", "scale_1", "scale_2">>
      rec(j, w) == (j - 1) \div w
      col(j, w) == ((j - 1) % w) + 1
      positions == [j \in 1..(3 * n) |->
                      Read(file, props, stride, rec(j, 3), axes[col(j, 3)])]
      colors == [j \in 1..(3 * n) |->
                   IF useSHColor(props)
                   THEN Sigmoid(Read(file, props, stride, rec(j, 3), sh[col(j, 3)]))
                   ELSE Div255(Read(file, props, stride, rec(j, 3), rgb[col(j, 3)]))]
      ys == [i \in 1..n |-> positions[3 * (i - 1) + 2]]
      scales == [j \in 1..(3 * n) |->
                   Exp(Read(file, props, stride, rec(j, 3), sc[col(j, 3)]))]
      rotations == [j \in 1..(4 * n) |->
                      Rotation(file, props, stride, rec(j, 4))[col(j, 4)]]
  IN  [positions |-> positions,
       colors |-> colors,
       elevations |-> Elevations(ys),
       scales |-> IF hasSplat(props) THEN [present |-> TRUE, arr |-> scales]
                  ELSE [present |-> FALSE, arr |-> <<>>],
       rotations |-> IF hasSplat(props) THEN [present |-> TRUE, arr |-> rotations]
                     ELSE [present |-> FALSE, arr |-> <<>>],
       boundingBox |-> BoundingBox(positions),
       pointCount |-> pointCount]

\* ------------------------------------------------------------- loadPly
\* The outcome of loadPly(source, onProgress): the dataset it resolves
\* with, or the error it rejects with; and how far it went (the header
\* lines its loop took, the records its loop decoded).
Resolved(data, lines, records) ==
  [status |-> "ok", error |-> "", data |-> data,
   linesParsed |-> lines, recordsDecoded |-> records]

Rejected(err, lines, records) ==
  [status |-> "error", error |-> err, data |-> <<>>,
   linesParsed |-> lines, recordsDecoded |-> records]

loadPly(file, readOk) ==
  IF ~readOk THEN Rejected("ReadFailure", 0, 0)                \* reader.onerror
  ELSE IF ByteLength(file) < ScanWindow
  THEN Rejected("RangeError", 0, 0)       \* new Uint8Array(buffer, 0, 1024 * 10)
  ELSE
    LET headerLines == HeaderLines(file.lines)
        h == ParseHeader(headerLines, 1, HeaderStart)
        props == h.properties
        stride == h.currentOffset
        pointCount == h.pointCount
        \* the length of new Float32Array(pointCount * k): 0 for NaN
        n == IF pointCount.nan THEN 0 ELSE pointCount.v
        decoded == Cardinality({i \in 0..(n - 1) :
                      \A j \in 0..i : RecordInRange(file, props, stride, j)})
    IN  IF h.typeError THEN Rejected("TypeError", h.linesParsed, 0)
        ELSE IF ~h.isBinary THEN Rejected("UnsupportedEncoding", h.linesParsed, 0)
        ELSE IF ~pointCount.nan /\ pointCount.v = 0
        THEN Rejected("NoVertices", h.linesParsed, 0)
        ELSE IF ~hasPosition(props) THEN Rejected("MissingPosition", h.linesParsed, 0)
        ELSE IF ~hasClassicColor(props) /\ ~hasSHColor(props)
        THEN Rejected("MissingColor", h.linesParsed, 0)
        ELSE IF n < 0 \/ ViewLength(file) < 0
        THEN Rejected("RangeError", h.linesParsed, 0)  \* new Float32Array, new DataView
        ELSE IF decoded < n THEN Rejected("RangeError", h.linesParsed, decoded)
        ELSE Resolved(Decode(file, props, stride, pointCount, n), h.linesParsed, n)

\* ------------------------------------------------------ the input files
\* A file is its header lines, its records (one value per property line,
\* in the order of the lines) and the bytes that follow the records.
xyz == <<Property("float", "x"), Property("float", "y"), Property("float", "z")>>
rgb == <<Property("uchar", "red"), Property("uchar", "green"), Property("uchar", "blue")>>
fdc == <<Property("float", "f_dc_0"), Property("float", "f_dc_1"), Property("float", "f_dc_2")>>
scale == <<Property("float", "scale_0"), Property("float", "scale_1"),
           Property("float", "scale_2")>>
rot == <<Property("float", "rot_0"), Property("float", "rot_1"),
         Property("float", "rot_2"), Property("float", "rot_3")>>
opacity == <<Property("float", "opacity")>>
normals == <<Property("double", "nx")>>

PropLists ==
  { xyz \o rgb,                                   \* classic colours
    xyz \o normals \o fdc,                        \* SH colours
    xyz \o fdc \o rgb,                            \* both colour sets
    xyz,                                          \* no colour
    xyz \o SubSeq(rgb, 1, 2) \o SubSeq(fdc, 1, 1),  \* neither set complete
    SubSeq(xyz, 1, 2) \o rgb,                     \* no z
    xyz \o fdc \o opacity \o scale \o rot,        \* the splat extension
    rgb \o scale \o rot \o xyz,                   \* the same, classic colours
    xyz \o rgb \o scale,                          \* scales alone
    xyz \o fdc \o scale \o SubSeq(rot, 1, 3),     \* no rot_3
    xyz \o rgb \o rot \o SubSeq(scale, 2, 3) }    \* no scale_0

\* the third word of the `element vertex` line; <<>> is a line without one
CountToks ==
  {<<DecDigits[n + 1]>> : n \in 0..MaxPoints}
    \cup {<<>>, <<"a", "b", "c">>, <<"-", "1">>, <<"0", "x", "2">>, <<"2", ".", "5">>}

\* the lines of a header.  order "std" is magic, format, element,
\* properties; "propsFirst" has no magic line and starts with the
\* properties.  fmt is "ble", "ascii" or "none"; hasCount is whether there
\* is an `element vertex` line; tail is "marker" (end_header), "late"
\* (end_header after a comment as long as the scan window), "fill"
\* (end_header after a comment that makes the header exactly as long as
\* the scan window, so that the file is at least that long whatever
\* follows) or "none".
Header(order, fmt, hasCount, tok, props, tail) ==
  LET f == IF fmt = "ble" THEN <<FormatBle>>
           ELSE IF fmt = "ascii" THEN <<FormatAscii>> ELSE <<>>
      c == IF hasCount THEN <<ElementVertex(tok)>> ELSE <<>>
      base == IF order = "std" THEN <<PlyLine>> \o f \o c \o props
              ELSE props \o f \o c
      fill == ScanWindow - HeaderBytes(base \o <<EndHeader>>) - 1
      t == IF tail = "marker" THEN <<EndHeader>>
           ELSE IF tail = "late" THEN <<Comment(ScanWindow), EndHeader>>
           ELSE IF tail = "fill" THEN <<Comment(fill), EndHeader>> ELSE <<>>
  IN  base \o t

\* the y values written, by pattern and record
YValues(pat) ==
  CASE pat = "steps" -> <<Q(2), Q(4), Q(6), Q(3), Q(5)>>
    [] pat = "flat" -> <<Q(7), Q(7), Q(7), Q(7), Q(7)>>
    [] pat = "below" -> <<0, 2, 1, 2, 0>>          \* maxY - minY <= 1e-6
    [] pat = "above" -> <<0, 3, 1, 2, 3>>          \* 1e-6 < maxY - minY
    [] OTHER -> <<0 - Q(1), Q(1), 0, 1, 0 - 1>>
YPatterns == {"steps", "flat", "below", "above", "signed"}

\* the value written for a property in record i
Written(name, i, pat) ==
  CASE name = "x" -> <<0, Q(1), 0 - Q(1), Q(2), 0>>[i]
    [] name = "y" -> YValues(pat)[i]
    [] name = "z" -> <<Q(5), Q(5), Q(1), 0, Q(5)>>[i]
    [] name = "red" -> <<0, 255, 128, 1, 254>>[i]
    [] name = "green" -> <<255, 0, 7, 128, 1>>[i]
    [] name = "blue" -> <<1, 2, 3, 4, 5>>[i]
    [] name \in {"f_dc_0", "f_dc_1", "f_dc_2"} -> <<0, Q(1), 0 - Q(1), 5, 0>>[i]
    [] name \in {"scale_0", "scale_1"} -> <<0, 0 - Q(1), Q(2), 0, 1>>[i]
    [] name = "scale_2" -> <<0, 0 - Q(5), 0, 1, 1>>[i]
    [] name = "rot_0" -> <<3, 1, 1, 0, 2>>[i]
    [] name = "rot_1" -> <<0, 2, 1, 0, 0>>[i]
    [] name = "rot_2" -> <<0, 3, 1, 0, 0>>[i]
    [] name = "rot_3" -> <<4, 4, 1, 0, 0>>[i]
    [] OTHER -> 9

Payload(props, n, pat) ==
  [i \in 1..n |-> [k \in 1..Len(props) |-> Written(props[k].name, i, pat)]]

File(lines, n, pat, pad) ==
  [lines |-> lines, payload |-> Payload(FileProps(lines), n, pat), pad |-> pad]

\* the records a generated file holds: as many as its header announces
\* when that is a count of 1..MaxPoints, and 2 otherwise
Announced(hasCount, tok) ==
  IF hasCount /\ ~ParseInt(tok).nan /\ ParseInt(tok).v \in 1..MaxPoints
  THEN ParseInt(tok).v ELSE 2

\* the bytes missing at the end of a file that was cut short: none, the
\* last byte, the last three floats
Cuts == {0, 1, 12}

\* files of at least the scan window, whole or cut short inside their
\* last record: the header announces the records written, and the last
\* cut bytes of the last record are not in the file (a pad below 0)
TruncatedFiles ==
  {File(Header("std", "ble", TRUE, <<DecDigits[n + 1]>>, props, "fill"), n, "steps", 0 - cut) :
     n \in 1..MaxPoints, props \in PropLists, cut \in Cuts}

ParseFiles ==
  {File(Header(order, fmt, hasCount, tok, props, tail), Announced(hasCount, tok), pat, pad) :
     order \in {"std", "propsFirst"}, fmt \in {"ble", "ascii", "none"},
     hasCount \in BOOLEAN, tok \in CountToks, props \in PropLists,
     tail \in {"marker", "late", "none"}, pat \in YPatterns, pad \in {0, ScanWindow}}
    \cup TruncatedFiles

\* ------------------------------------------- loadPly on the input files
VARIABLES
  pfile,    \* the file handed to loadPly
  pread,    \* whether its FileReader delivers the bytes (onload) or fails
  pres      \* the outcome of loadPly, NotRun before the call

pvars == <<pfile, pread, pres>>

NotRun == [status |-> "none", error |-> "", data |-> <<>>,
           linesParsed |-> 0, recordsDecoded |-> 0]

ParseStart ==
  /\ pfile \in ParseFiles
  /\ pread \in BOOLEAN
  /\ pres = NotRun

LoadPlyRun ==
  /\ pres = NotRun
  /\ pres' = loadPly(pfile, pread)
  /\ UNCHANGED <<pfile, pread>>


\* ------------------------------------------------- what the file declares
\* What the claims about loadPly say of its input, read off the file
\* itself and not off the loader's own tables.
Declared(file) == {file.lines[i].name : i \in {j \in 1..Len(file.lines) :
                                                file.lines[j].kind = "property"}}

ClassicDeclared(file) == {"red", "green", "blue"} \subseteq Declared(file)
SHDeclared(file) == {"f_dc_0", "f_dc_1", "f_dc_2"} \subseteq Declared(file)
SplatNames == {"scale_0", "scale_1", "scale_2", "rot_0", "rot_1", "rot_2", "rot_3"}

MarkerInWindow(file) ==
  \E i \in 1..Len(file.lines) :
    /\ file.lines[i].kind = "end_header"
    /\ LineStart(file.lines, i) + Len("end_header") <= ScanWindow

\* the value the file holds for a property in its record i (from 1)
WrittenIn(file, i, name) ==
  LET fp == FileProps(file.lines)
  IN  file.payload[i][CHOOSE k \in 1..Len(fp) : fp[k].name = name]

\* the `element vertex` lines of the file and the count they announce:
\* the decimal number n >= 1 in AnnouncedCount(file) = {n}, if any
CountLines(file) == {i \in 1..Len(file.lines) : file.lines[i].kind = "element_vertex"}

IsPositiveDecimal(tok) ==
  /\ Len(tok) >= 1
  /\ \A c \in 1..Len(tok) : DigitValue(DecDigits, tok[c]) >= 0
  /\ \E c \in 1..Len(tok) : DigitValue(DecDigits, tok[c]) >= 1

\* a binary little-endian file as the format defines it: magic line,
\* format line, one element line with a positive decimal count, property
\* lines, end_header, and then exactly that many records
WellFormed(file) ==
  /\ file.lines[1].kind = "ply"
  /\ file.lines[2].kind = "format_ble"
  /\ file.lines[Len(file.lines)].kind = "end_header"
  /\ \A i \in 1..Len(file.lines) : file.lines[i].kind # "comment"
  /\ Cardinality(CountLines(file)) = 1
  /\ \A i \in CountLines(file) :
       /\ IsPositiveDecimal(file.lines[i].tok)
       /\ Len(file.lines[i].tok) = 1
       /\ DigitValue(DecDigits, file.lines[i].tok[1]) = Len(file.payload)

\* ------------------------------------------------------------------- C2
\* C2: for every buffer in which 'end_header' does not occur within the
\* first 10 KiB, loadPly fails with HeaderTooLargeOrMissing, and it takes
\* no header line and decodes no record of such a buffer.
C2_NoMarkerIsHeaderTooLarge ==
  (pres.status # "none" /\ pread /\ ~MarkerInWindow(pfile))
    => /\ pres.status = "error"
       /\ pres.error = "HeaderTooLargeOrMissing"
       /\ pres.linesParsed = 0
       /\ pres.recordsDecoded = 0

\* ------------------------------------------------------------------- C3
\* C3: every well-formed binary little-endian file with x, y, z and uchar
\* red, green, blue and N >= 1 records, of whatever byte length, loads:
\* positions are the written values and each colour is the written byte
\* over 255.
C3_ClassicFileDecodes ==
  (/\ pres.status # "none" /\ pread
   /\ WellFormed(pfile)
   /\ {"x", "y", "z"} \subseteq Declared(pfile)
   /\ ClassicDeclared(pfile) /\ ~SHDeclared(pfile))
    => /\ pres.status = "ok"
       /\ Len(pres.data.positions) = 3 * Len(pfile.payload)
       /\ \A i \in 1..Len(pfile.payload) :
            /\ pres.data.positions[3 * i - 2] = WrittenIn(pfile, i, "x")
            /\ pres.data.positions[3 * i - 1] = WrittenIn(pfile, i, "y")
            /\ pres.data.positions[3 * i] = WrittenIn(pfile, i, "z")
            /\ pres.data.colors[3 * i - 2] = Div255(WrittenIn(pfile, i, "red"))
            /\ pres.data.colors[3 * i - 1] = Div255(WrittenIn(pfile, i, "green"))
            /\ pres.data.colors[3 * i] = Div255(WrittenIn(pfile, i, "blue"))

\* ------------------------------------------------------------------- C4
\* C4 as claimed: a load succeeds only when exactly one of the two colour
\* sets is fully declared; with both fully declared it fails with
\* MissingColor.
C4_ExactlyOneColourSet ==
  /\ pres.status = "ok" => (ClassicDeclared(pfile) # SHDeclared(pfile))
  /\ (pres.status = "ok" \/ pres.error = "MissingColor")
       => (pres.error = "MissingColor"
             <=> ~(ClassicDeclared(pfile) # SHDeclared(pfile)))

\* the errors loadPly raises before it looks at the colour properties, and
\* those it raises after
BeforeColour == {"ReadFailure", "RangeError", "TypeError", "UnsupportedEncoding",
                 "NoVertices", "MissingPosition"}

\* C4 (amended): the load fails with MissingColor exactly when neither
\* colour set is fully declared (and no earlier check failed); with at
\* least one set it does not fail on colour, with f_dc_0..2 declared (alone
\* or beside red, green, blue) the colours are the sigmoid of the f_dc
\* values, and otherwise the bytes over 255.
C4_MissingColorOnlyWhenNeither ==
  /\ pres.error = "MissingColor" => ~ClassicDeclared(pfile) /\ ~SHDeclared(pfile)
  /\ pres.status = "ok" => ClassicDeclared(pfile) \/ SHDeclared(pfile)
  /\ (pres.status = "error" /\ pres.error \notin BeforeColour
        /\ ~ClassicDeclared(pfile) /\ ~SHDeclared(pfile))
       => pres.error = "MissingColor"
  /\ pres.status = "ok" =>
       \A j \in 1..Len(pres.data.colors) :
         LET i == ((j - 1) \div 3) + 1
             c == ((j - 1) % 3) + 1
         IN  pres.data.colors[j] =
               IF SHDeclared(pfile)
               THEN Sigmoid(WrittenIn(pfile, i, <<"f_dc_0", "f_dc_1", "f_dc_2">>[c]))
               ELSE Div255(WrittenIn(pfile, i, <<"red", "green", "blue">>[c]))

\* a load of a file that declares both colour sets succeeded, with points
C4_WitnessBothSets ==
  /\ pres.status = "ok"
  /\ ClassicDeclared(pfile) /\ SHDeclared(pfile)
  /\ Len(pres.data.colors) = 3 * MaxPoints
  /\ pres.data.colors[1] = Sigmoid(0)

\* ------------------------------------------------------------------- C7
\* C7: the dataset loadPly returns has scales and rotations both or
\* neither; it has them exactly when all seven of scale_0..2 and rot_0..3
\* are declared, and a proper subset of the seven gives neither.
C7_SplatExtensionAllOrNothing ==
  pres.status = "ok" =>
    /\ pres.data.scales.present = pres.data.rotations.present
    /\ pres.data.scales.present <=> SplatNames \subseteq Declared(pfile)
    /\ pres.data.scales.present =>
         /\ 4 * Len(pres.data.scales.arr) = 3 * Len(pres.data.rotations.arr)
         /\ Len(pres.data.scales.arr) = Len(pres.data.positions)
    /\ ~pres.data.scales.present =>
         pres.data.scales.arr = <<>> /\ pres.data.rotations.arr = <<>>

\* a file that declares some but not all of the seven loaded, without
\* either array; it has points
C7_WitnessPartialSubset ==
  /\ pres.status = "ok"
  /\ SplatNames \cap Declared(pfile) # {}
  /\ ~(SplatNames \subseteq Declared(pfile))
  /\ ~pres.data.scales.present /\ ~pres.data.rotations.present
  /\ Len(pres.data.positions) = 3 * MaxPoints

\* ------------------------------------------------------------------- C8
\* C8: loadPly never returns a dataset without points; when the vertex
\* count is 0, is absent or is no positive integer (and the file is binary
\* little-endian with its marker in the window), the load fails with
\* NoVertices.
C8_NoDatasetWithoutPoints ==
  LET positive == /\ CountLines(pfile) # {}
                  /\ \A i \in CountLines(pfile) : IsPositiveDecimal(pfile.lines[i].tok)
  IN  /\ pres.status = "ok" =>
           /\ ~pres.data.pointCount.nan
           /\ pres.data.pointCount.v >= 1
           /\ Len(pres.data.positions) = 3 * pres.data.pointCount.v
      /\ (/\ pres.status # "none" /\ pread
          /\ ByteLength(pfile) >= ScanWindow
          /\ MarkerInWindow(pfile)
          /\ \E i \in 1..Len(pfile.lines) : pfile.lines[i].kind = "format_ble"
          /\ ~positive)
           => pres.status = "error" /\ pres.error = "NoVertices"

\* ------------------------------------------------------------------ C10
\* d quanta of 2^-21 are more than 1e-6
ExceedsMicro(d) == d >= 2 ^ 11 \/ (d >= 0 /\ d * (10 ^ 6) > 2 ^ 21)

\* the y values the file holds
WrittenYs(file) == [i \in 1..Len(file.payload) |-> WrittenIn(file, i, "y")]

\* C10: after the second pass every elevation lies in [0,1]: when
\* maxY - minY > 1e-6 each is (y - minY)/(maxY - minY), 0 at minY and 1 at
\* maxY (y values 2, 4, 6 give 0, 0.5, 1); otherwise each is 0.5.
C10_ElevationsNormalized ==
  pres.status = "ok" =>
    LET ys == WrittenYs(pfile)
        n == Len(pres.data.elevations)
        lo == Min({ys[i] : i \in 1..n})
        hi == Max({ys[i] : i \in 1..n})
    IN  /\ n = Len(pres.data.positions) \div 3
        /\ \A i \in 1..n :
             LET e == pres.data.elevations[i]
             IN  /\ e.den > 0 /\ 0 <= e.num /\ e.num <= e.den
                 /\ IF ExceedsMicro(hi - lo)
                    THEN /\ e = Ratio(ys[i] - lo, hi - lo)
                         /\ ys[i] = lo => e.num = 0
                         /\ ys[i] = hi => e.num = e.den
                    ELSE e = Ratio(1, 2)
        /\ (n = 3 /\ ys = <<Q(2), Q(4), Q(6)>>) =>
             /\ pres.data.elevations[1].num = 0
             /\ 2 * pres.data.elevations[2].num = pres.data.elevations[2].den
             /\ pres.data.elevations[3].num = pres.data.elevations[3].den

\* the y values 2, 4, 6 were decoded (to 0, 0.5, 1)
C10_WitnessSteps ==
  /\ pres.status = "ok"
  /\ WrittenYs(pfile) = <<Q(2), Q(4), Q(6)>>
  /\ pres.data.elevations = <<Ratio(0, Q(4)), Ratio(Q(2), Q(4)), Ratio(Q(4), Q(4))>>

\* ------------------------------------------------------------------ C11
\* the value the file holds for an axis (1, 2, 3 for x, y, z) in record i
WrittenAxis(file, i, a) == WrittenIn(file, i, <<"x", "y", "z">>[a])

\* C11: for every file loadPly resolves, boundingBox.min and
\* boundingBox.max are the per-axis minimum and maximum of the decoded
\* positions, which are the x, y, z the file holds: every point is inside
\* the box, and when there is a point each face of the box is touched by
\* one (of no point the box is the empty box, min +Infinity, max -Infinity).
C11_BoundingBoxExact ==
  pres.status = "ok" =>
    LET pos == pres.data.positions
        box == pres.data.boundingBox
        n == Len(pos) \div 3
    IN  \A a \in 1..3 :
          /\ \A i \in 1..n :
               /\ pos[3 * (i - 1) + a] = WrittenAxis(pfile, i, a)
               /\ box.min[a] <= WrittenAxis(pfile, i, a)
               /\ WrittenAxis(pfile, i, a) <= box.max[a]
          /\ IF n = 0
             THEN box.min[a] = Infinity /\ box.max[a] = 0 - Infinity
             ELSE /\ \E i \in 1..n : WrittenAxis(pfile, i, a) = box.min[a]
                  /\ \E i \in 1..n : WrittenAxis(pfile, i, a) = box.max[a]

\* three points were decoded, all with z > 0 and with x on both sides of 0
C11_WitnessThreePoints ==
  /\ pres.status = "ok"
  /\ Len(pres.data.positions) = 9
  /\ pres.data.boundingBox.min[1] < 0 /\ pres.data.boundingBox.max[1] > 0
  /\ pres.data.boundingBox.min[3] > 0
  /\ pres.data.boundingBox.min[3] < pres.data.boundingBox.max[3]

\* ------------------------------------------------------------------ C21
\* the bytes after the header are fewer than the records the loader is to
\* decode take: pointCount * stride, as the header loop computes them
PayloadShort(file) ==
  \E h \in {ParseHeader(HeaderLines(file.lines), 1, HeaderStart)} :
    /\ ~h.typeError
    /\ ~h.pointCount.nan
    /\ ViewLength(file) < h.pointCount.v * h.currentOffset

\* C21: when the bytes after the header are fewer than pointCount x stride,
\* loadPly decodes only records whose reads lie inside the buffer and
\* returns no dataset: the load fails and the caller gets an error.
C21_ShortPayloadFails ==
  (pres.status # "none" /\ pread /\ PayloadShort(pfile))
    => /\ pres.status = "error"
       /\ pres.data = <<>>
       /\ \A i \in 0..(pres.recordsDecoded - 1) :
            \E h \in {ParseHeader(HeaderLines(pfile.lines), 1, HeaderStart)} :
              RecordInRange(pfile, h.properties, h.currentOffset, i)

\* ====================================================================
\* The application: App's state, handleLoad, the control panel, and the
\* Viewer's scene, effects and frame callback.
\* ====================================================================
ORIGINAL == 0
COLORMAP == 1
SPLAT == 2

\* plyData before any load and after a failed one
Null == [null |-> TRUE]

\* defaultTransformations
defaultTransformations ==
  [position |-> <<0, 0, 0>>, rotation |-> <<0, 0, 0>>, scale |-> 1]

\* the appearance App starts with, in hundredths: point size 5.0,
\* opacity 1.0, splat scale 1.0
defaultAppearance == [pointSize |-> 500, opacity |-> 100, splatScale |-> 100]

\* new THREE.PerspectiveCamera(75, ...)
Fov == 75

\* the client size of the mount element when the page opens, and the
\* sizes it takes as the window is resized
InitialViewport == [clientWidth |-> 800, clientHeight |-> 600]

ViewportSizes ==
  {InitialViewport,
   [clientWidth |-> 1200, clientHeight |-> 600],
   [clientWidth |-> 800, clientHeight |-> 400]}

\* focal_y = clientHeight / (2 tan(fov_y / 2)) and focal_x = focal_y * aspect,
\* as terms
Focal(clientHeight, cam) ==
  [y |-> [height |-> clientHeight, fov |-> cam.fov],
   x |-> [focal_y |-> [height |-> clientHeight, fov |-> cam.fov],
          aspect |-> cam.aspect]]

\* the files the user picks in the application
ClassicFile ==
  File(Header("std", "ble", TRUE, <<"2">>, xyz \o rgb, "marker"), 2, "steps", ScanWindow)
SplatFile ==
  File(Header("std", "ble", TRUE, <<"2">>, xyz \o fdc \o opacity \o scale \o rot, "marker"),
       2, "flat", ScanWindow)
NoMarkerFile ==
  File(Header("std", "ble", TRUE, <<"2">>, xyz \o rgb, "late"), 2, "steps", ScanWindow)
NoCountFile ==
  File(Header("std", "ble", TRUE, <<>>, xyz \o rgb, "marker"), 2, "steps", ScanWindow)

AppFiles == {ClassicFile, SplatFile, NoMarkerFile, NoCountFile}

\* what loadPly does with each of them, by file and by whether the
\* FileReader delivers
AppOutcomes == [f \in AppFiles, ok \in BOOLEAN |-> loadPly(f, ok)]

OutcomeOf(f, ok) == AppOutcomes[f, ok]

VARIABLES
  \* App (useState)
  plyData, isLoading, loadingProgress, error, splatDataAvailable,
  transformations, crop, renderMode, stats,
  \* the handleLoad calls awaiting loadPly, and their number so far
  loads, nLoads,
  \* what the last handler that ran was, the onProgress calls made in it,
  \* and for the end of a load, which load it was, what the state was when
  \* that load began (`changed`: the object was scaled and rotated and
  \* cropping was enabled) and whether nothing else (no other load, no
  \* control) changed the state while it was in flight
  lastHandler,
  \* Viewer (useRef): the points objects of the scene, pointsRef.current
  \* (the id of an object, 0 for null) and the ids given out
  scene, pointsRef, nextId,
  \* the steps the last run of the `new PLY data` effect took, in order
  effectLog,
  \* whether the effects of the last commit are still to run
  plyDirty, uniDirty,
  \* what the last frame drew; NoFrame once anything has changed since
  frame,
  \* App (useState): the appearance sliders
  appearance,
  \* Viewer: the mount element's client size, the camera and the size the
  \* renderer was last given
  mount, camera, renderer

appvars == <<plyData, isLoading, loadingProgress, error, splatDataAvailable,
             transformations, crop, renderMode, stats, loads, nLoads, lastHandler,
             scene, pointsRef, nextId, effectLog, plyDirty, uniDirty, frame,
             appearance, mount, camera, renderer>>

vars == <<pfile, pread, pres, plyData, isLoading, loadingProgress, error,
          splatDataAvailable, transformations, crop, renderMode, stats, loads,
          nLoads, lastHandler, scene, pointsRef, nextId, effectLog, plyDirty,
          uniDirty, frame, appearance, mount, camera, renderer>>

NoFrame == [ran |-> FALSE, ref |-> 0, drawn |-> {}]
NoBefore == [plyData |-> Null, pointCount |-> Num(0), renderMode |-> ORIGINAL,
             splatDataAvailable |-> FALSE, changed |-> FALSE, quiet |-> FALSE]

\* setLoadingProgress(0)
NoProgress == Ratio(0, 1)

NoLoad == [id |-> 0, file |-> Null, readOk |-> FALSE]

\* the record of a handler that has run
Handler(op, before, load, calls) ==
  [op |-> op, before |-> before, load |-> load, calls |-> calls]

\* the loads in flight, once another handler has changed the state
Disturbed(ls) == {[l EXCEPT !.before.quiet = FALSE] : l \in ls}

AppStart ==
  /\ plyData = Null
  /\ isLoading = FALSE
  /\ loadingProgress = NoProgress
  /\ error = ""
  /\ splatDataAvailable = FALSE
  /\ transformations = defaultTransformations
  /\ crop = [min |-> <<0, 0, 0>>, max |-> <<0, 0, 0>>, enabled |-> FALSE]
  /\ renderMode = ORIGINAL
  /\ stats = [pointCount |-> Num(0)]
  /\ loads = {}
  /\ nLoads = 0
  /\ lastHandler = Handler("none", NoBefore, NoLoad, <<>>)
  /\ scene = {}
  /\ pointsRef = 0
  /\ nextId = 1
  /\ effectLog = <<>>
  /\ plyDirty = FALSE
  /\ uniDirty = FALSE
  /\ frame = NoFrame
  /\ appearance = defaultAppearance
  /\ mount = InitialViewport
  /\ camera = [fov |-> Fov, aspect |-> Ratio(mount.clientWidth, mount.clientHeight)]
  /\ renderer = [size |-> mount]

\* ------------------------------------------------------------ handleLoad
\* handleLoad up to its await: the five setters, then loadPly starts to
\* read the file.  A handler's updates are rendered after the effects of
\* the commit before it have run.
HandleLoadStart(f) ==
  /\ ~plyDirty /\ ~uniDirty
  /\ nLoads < MaxLoads
  /\ Cardinality(loads) < MaxInFlight
  /\ isLoading' = TRUE
  /\ error' = ""
  /\ loadingProgress' = NoProgress
  /\ splatDataAvailable' = FALSE
  /\ renderMode' = ORIGINAL
  /\ nLoads' = nLoads + 1
  /\ loads' = Disturbed(loads) \cup
       {[id |-> nLoads + 1, file |-> f, reported |-> 0,
         before |-> [plyData |-> plyData, pointCount |-> stats.pointCount,
                     renderMode |-> renderMode,
                     splatDataAvailable |-> splatDataAvailable,
                     changed |-> (transformations.scale # 1
                                    /\ transformations.rotation # <<0, 0, 0>>
                                    /\ crop.enabled),
                     quiet |-> loads = {}]]}
  /\ lastHandler' = Handler("start", NoBefore, NoLoad, <<>>)
  /\ uniDirty' = (renderMode # ORIGINAL)
  /\ frame' = NoFrame
  /\ UNCHANGED <<plyData, transformations, crop, stats, scene, pointsRef, nextId,
                 effectLog, plyDirty, appearance, mount, camera, renderer>>

\* the Load from Disk button without `disabled`
LoadFromDiskEnabled(f) == HandleLoadStart(f)

\* the Load from Disk button, disabled while isLoading, and the file the
\* user picks in the dialog it opens
LoadFromDisk(f) ==
  /\ ~isLoading
  /\ HandleLoadStart(f)

\* the bytes a progress event of the FileReader reports as loaded, for a
\* file of a size: here half of it or all of it
Chunks(total) == {total \div 2, total}

\* the calls of onProgress that loadPly makes after the read, while it
\* parses the header and decodes the records: there are none
ParseProgressAtEnd(total) == <<Ratio(total, total)>>

ParseProgress(total) == <<>>

\* the onProgress calls as lastHandler records them: the value, the value
\* this load reported before, and what loadPly was doing
Calls(values, l, during) ==
  [k \in 1..Len(values) |->
     [value |-> values[k], after |-> Ratio(l.reported, ByteLength(l.file)),
      during |-> during]]

\* reader.onprogress, with setLoadingProgress as onProgress; e is the event
ReaderProgress(l, e) ==
  /\ ~plyDirty /\ ~uniDirty
  /\ l \in loads
  /\ e.total = ByteLength(l.file)
  /\ e.loaded > l.reported
  /\ IF e.lengthComputable
     THEN /\ loadingProgress' = Ratio(e.loaded, e.total)
          /\ loads' = (loads \ {l}) \cup {[l EXCEPT !.reported = e.loaded]}
          /\ lastHandler' = Handler("progress", NoBefore, NoLoad,
                                    Calls(<<Ratio(e.loaded, e.total)>>, l, "read"))
     ELSE /\ UNCHANGED <<loadingProgress, loads>>
          /\ lastHandler' = Handler("progress", NoBefore, NoLoad, <<>>)
  /\ UNCHANGED <<plyData, isLoading, error, splatDataAvailable, transformations,
                 crop, renderMode, stats, nLoads, scene, pointsRef, nextId,
                 effectLog, plyDirty, uniDirty, frame, appearance, mount, camera,
                 renderer>>

\* the result a call of handleLoad works with once its loadPly settles,
\* ls being the calls in flight: the result for the file of the newest call
AppliedOfNewest(l, readOk, ls) ==
  OutcomeOf((CHOOSE m \in ls : \A k \in ls : k.id <= m.id).file, readOk)

\* ... in the code: the result for its own `source`
Applied(l, readOk, ls) == OutcomeOf(l.file, readOk)

\* the crop box after a load that keeps the Enable Cropping toggle, c
\* being the crop box before
LoadedCropKeepsToggle(data, c) ==
  [min |-> data.boundingBox.min, max |-> data.boundingBox.max, enabled |-> c.enabled]

\* `setCrop({ min: ..., max: ..., enabled: false })` for the new dataset
LoadedCrop(data, c) ==
  [min |-> data.boundingBox.min, max |-> data.boundingBox.max, enabled |-> FALSE]

\* the rest of the try block and the finally block, when loadPly resolves
LoadResolved(l, readOk) ==
  \E r \in {Applied(l, readOk, loads)} :
    /\ ~plyDirty /\ ~uniDirty
    /\ l \in loads
    /\ r.status = "ok"
    /\ \E data \in {r.data} :
         \E hasSplatData \in {data.scales.present /\ data.rotations.present} :
           /\ plyData' = data
           /\ stats' = [stats EXCEPT !.pointCount = data.pointCount]
           /\ splatDataAvailable' = hasSplatData
           /\ renderMode' = IF hasSplatData THEN SPLAT ELSE ORIGINAL
           /\ crop' = LoadedCrop(data, crop)
    /\ transformations' = defaultTransformations
    /\ isLoading' = FALSE
    /\ loadingProgress' = NoProgress
    /\ loads' = Disturbed(loads \ {l})
    /\ lastHandler' = Handler("resolved", l.before,
                              [id |-> l.id, file |-> l.file, readOk |-> readOk],
                              Calls(ParseProgress(ByteLength(l.file)), l, "decode"))
    /\ plyDirty' = TRUE
    /\ uniDirty' = TRUE
    /\ frame' = NoFrame
    /\ UNCHANGED <<error, nLoads, scene, pointsRef, nextId, effectLog, appearance,
                   mount, camera, renderer>>

\* the catch block and the finally block, when loadPly rejects
LoadRejected(l, readOk) ==
  \E r \in {Applied(l, readOk, loads)} :
    /\ ~plyDirty /\ ~uniDirty
    /\ l \in loads
    /\ r.status = "error"
    /\ error' = r.error
    /\ plyData' = Null
    /\ stats' = [stats EXCEPT !.pointCount = Num(0)]
    /\ isLoading' = FALSE
    /\ loadingProgress' = NoProgress
    /\ loads' = Disturbed(loads \ {l})
    /\ lastHandler' = Handler("rejected", l.before,
                              [id |-> l.id, file |-> l.file, readOk |-> readOk],
                              Calls(ParseProgress(ByteLength(l.file)), l, "decode"))
    /\ plyDirty' = (plyData # Null)
    /\ frame' = NoFrame
    /\ UNCHANGED <<splatDataAvailable, transformations, crop, renderMode, nLoads,
                   scene, pointsRef, nextId, effectLog, uniDirty, appearance,
                   mount, camera, renderer>>

\* ------------------------------------------------- the `new PLY data` effect
\* A points object: the geometry built from a dataset, the material with
\* its uniforms, and the object's transform.
NewPoints(id, data, mode, c, ap, focal) ==
  [id |-> id,
   geometry |-> [position |-> data.positions, color |-> data.colors,
                 elevation |-> data.elevations,
                 a_scale |-> IF data.scales.present /\ data.rotations.present
                             THEN data.scales ELSE [present |-> FALSE, arr |-> <<>>],
                 a_rotation |-> IF data.scales.present /\ data.rotations.present
                                THEN data.rotations ELSE [present |-> FALSE, arr |-> <<>>],
                 boundingBox |-> data.boundingBox,
                 disposed |-> FALSE],
   material |-> [uniforms |-> [u_point_size |-> ap.pointSize,
                               u_opacity |-> ap.opacity,
                               u_splat_scale |-> ap.splatScale,
                               u_render_mode |-> mode, u_crop_min |-> c.min,
                               u_crop_max |-> c.max, u_crop_enabled |-> c.enabled,
                               u_focal |-> focal],
                 disposed |-> FALSE],
   position |-> <<0, 0, 0>>, rotation |-> <<0, 0, 0>>, scale |-> 1]

\* geometry.dispose() and material.dispose() of the object with an id,
\* wherever it is referenced
Disposed(objects, id) ==
  {IF o.id = id
   THEN [o EXCEPT !.geometry.disposed = TRUE, !.material.disposed = TRUE]
   ELSE o : o \in objects}

\* the viewer's refs as one value: v.scene, v.pointsRef, v.nextId, v.log
\* the old object disposed but left in the scene (no scene.remove)
DisposePreviousNoRemove(v) ==
  IF v.pointsRef = 0 THEN v
  ELSE [v EXCEPT
          !.scene = Disposed(v.scene, v.pointsRef),
          !.log = @ \o <<[op |-> "disposeGeometry", id |-> v.pointsRef],
                         [op |-> "disposeMaterial", id |-> v.pointsRef]>>]

\* `if (pointsRef.current) { scene.remove(...); ...dispose(); ...dispose(); }`
DisposePrevious(v) ==
  IF v.pointsRef = 0 THEN v
  ELSE [v EXCEPT
          !.scene = Disposed({o \in v.scene : o.id # v.pointsRef}, v.pointsRef),
          !.log = @ \o <<[op |-> "remove", id |-> v.pointsRef],
                         [op |-> "disposeGeometry", id |-> v.pointsRef],
                         [op |-> "disposeMaterial", id |-> v.pointsRef]>>]

\* the geometry, the material, new THREE.Points, pointsRef.current = points,
\* scene.add(points)
InstallNew(v, data, mode, c, ap, focal) ==
  [v EXCEPT
     !.scene = @ \cup {NewPoints(v.nextId, data, mode, c, ap, focal)},
     !.pointsRef = v.nextId,
     !.nextId = @ + 1,
     !.log = @ \o <<[op |-> "build", id |-> v.nextId],
                    [op |-> "add", id |-> v.nextId]>>]

\* the body of the effect for a dataset (plyData is not null)
PlyDataEffect(v, data, mode, c, ap, focal) ==
  InstallNew(DisposePrevious(v), data, mode, c, ap, focal)

\* ------------------------------------------------- the uniform update effect
\* the effect without the three copies into the object's transform
UniformEffectUniformsOnly(v, t, mode, c, ap) ==
  IF v.pointsRef = 0 THEN v
  ELSE [v EXCEPT !.scene =
          {IF o.id = v.pointsRef
           THEN [o EXCEPT !.material.uniforms.u_point_size = ap.pointSize,
                          !.material.uniforms.u_opacity = ap.opacity,
                          !.material.uniforms.u_splat_scale = ap.splatScale,
                          !.material.uniforms.u_render_mode = mode,
                          !.material.uniforms.u_crop_min = c.min,
                          !.material.uniforms.u_crop_max = c.max,
                          !.material.uniforms.u_crop_enabled = c.enabled]
           ELSE o : o \in v.scene}]

UniformEffect(v, t, mode, c, ap) ==
  IF v.pointsRef = 0 THEN v
  ELSE [v EXCEPT !.scene =
          {IF o.id = v.pointsRef
           THEN [o EXCEPT !.position = t.position, !.rotation = t.rotation,
                          !.scale = t.scale,
                          !.material.uniforms.u_point_size = ap.pointSize,
                          !.material.uniforms.u_opacity = ap.opacity,
                          !.material.uniforms.u_splat_scale = ap.splatScale,
                          !.material.uniforms.u_render_mode = mode,
                          !.material.uniforms.u_crop_min = c.min,
                          !.material.uniforms.u_crop_max = c.max,
                          !.material.uniforms.u_crop_enabled = c.enabled]
           ELSE o : o \in v.scene}]

\* The effects of the last commit run, in the order the component declares
\* them: the `new PLY data` effect when plyData changed (it returns at once
\* for null), then the uniform update effect when one of its dependencies
\* changed.
FlushEffects ==
  LET v0 == [scene |-> scene, pointsRef |-> pointsRef, nextId |-> nextId, log |-> <<>>]
      v1 == IF plyDirty /\ plyData # Null
            THEN PlyDataEffect(v0, plyData, renderMode, crop, appearance,
                               Focal(mount.clientHeight, camera))
            ELSE v0
      v2 == IF uniDirty
            THEN UniformEffect(v1, transformations, renderMode, crop, appearance)
            ELSE v1
  IN  /\ plyDirty \/ uniDirty
      /\ scene' = v2.scene
      /\ pointsRef' = v2.pointsRef
      /\ nextId' = v2.nextId
      /\ effectLog' = IF plyDirty /\ plyData # Null THEN v2.log ELSE effectLog
      /\ plyDirty' = FALSE
      /\ uniDirty' = FALSE
      /\ frame' = NoFrame
      /\ UNCHANGED <<plyData, isLoading, loadingProgress, error, splatDataAvailable,
                     transformations, crop, renderMode, stats, loads, nLoads,
                     lastHandler, appearance, mount, camera, renderer>>

\* ------------------------------------------------------------ the shaders
\* the cropping block with <= and >=: a point on a face of the box flagged
CropDiscardInclusive(p, u) ==
  /\ u.u_crop_enabled
  /\ \E a \in 1..3 : p[a] <= u.u_crop_min[a] \/ p[a] >= u.u_crop_max[a]

\* v_discard after the cropping block of the vertex shader, for a position
CropDiscard(p, u) ==
  /\ u.u_crop_enabled
  /\ \E a \in 1..3 : p[a] < u.u_crop_min[a] \/ p[a] > u.u_crop_max[a]

\* the points of an object, and the position attribute of point i
PointsOf(o) == 1..(Len(o.geometry.position) \div 3)
PositionOf(o, i) == <<o.geometry.position[3 * i - 2], o.geometry.position[3 * i - 1],
                      o.geometry.position[3 * i]>>

\* The sets of points whose projected covariance can have d <= 0 in a
\* frame.  d depends on the camera; without the a_scale attribute the
\* covariance is zero and d = 0 for every point.
DegenerateSets(o) ==
  IF o.material.uniforms.u_render_mode # SPLAT THEN {{}}
  ELSE IF o.geometry.a_scale.present THEN SUBSET PointsOf(o)
  ELSE {PointsOf(o)}

\* GLSL normalize of a vec4 of decoder terms num / sqrt(normSq) that share
\* their normSq: each num over the square root of the sum of the squares
GlslNormalize(v) ==
  LET sumSq == v[1].num * v[1].num + v[2].num * v[2].num
                 + v[3].num * v[3].num + v[4].num * v[4].num
  IN  [k \in 1..4 |-> Normalized(v[k].num, sumSq)]

\* `vec4 q = normalize(vec4(a_rotation.yzw, a_rotation.x))` for point i:
\* q.x, q.y, q.z, q.w in this order
ShaderQuaternion(a_rotation, i) ==
  GlslNormalize(<<a_rotation[4 * i - 2], a_rotation[4 * i - 1], a_rotation[4 * i],
                  a_rotation[4 * i - 3]>>)

\* the splat block assigning v_discard from d alone
SplatDiscardAssigns(flag, mode, dNotPositive) ==
  IF mode = SPLAT THEN dNotPositive ELSE flag

\* v_discard after the splat block, from the flag the cropping block left:
\* `if (u_render_mode == 2) { ... if (d <= 0.0) { v_discard = 1.0; } ... }`
SplatDiscard(flag, mode, dNotPositive) ==
  flag \/ (mode = SPLAT /\ dNotPositive)

\* the fragment shader at the centre of the sprite (cxy = 0, so D = 0 and
\* r_squared = 0): whether it writes gl_FragColor
FragmentWritten(v_discard, mode, dNotPositive) ==
  /\ ~v_discard                                  \* if (v_discard > 0.5) discard
  /\ ~(mode = SPLAT /\ dNotPositive)             \* if (det <= 0.0) discard

\* what the shaders leave for an object: the points with d <= 0, and for
\* each point the flag after the cropping block, the final v_discard, the
\* quaternion of the splat block and whether a fragment is written
Draw(o, degenerate) ==
  LET u == o.material.uniforms
      flag == [i \in PointsOf(o) |-> CropDiscard(PositionOf(o, i), u)]
      final == [i \in PointsOf(o) |->
                  SplatDiscard(flag[i], u.u_render_mode, i \in degenerate)]
  IN  [obj |-> o,
       degenerate |-> degenerate,
       cropFlag |-> flag,
       v_discard |-> final,
       q |-> [i \in PointsOf(o) |->
                IF u.u_render_mode = SPLAT /\ o.geometry.a_rotation.present
                THEN ShaderQuaternion(o.geometry.a_rotation.arr, i) ELSE <<>>],
       fragment |-> [i \in PointsOf(o) |->
                       FragmentWritten(final[i], u.u_render_mode, i \in degenerate)]]

\* animate: renderer.render(scene, camera) draws every object of the scene
Animate ==
  /\ \E degenerate \in [scene -> SUBSET (1..MaxPoints)] :
       /\ \A o \in scene : degenerate[o] \in DegenerateSets(o)
       /\ frame' = [ran |-> TRUE, ref |-> pointsRef,
                    drawn |-> {Draw(o, degenerate[o]) : o \in scene}]
  /\ UNCHANGED <<plyData, isLoading, loadingProgress, error, splatDataAvailable,
                 transformations, crop, renderMode, stats, loads, nLoads, lastHandler,
                 scene, pointsRef, nextId, effectLog, plyDirty, uniDirty,
                 appearance, mount, camera, renderer>>

\* ------------------------------------------------------ the window's size
\* the window is resized: the mount element has a new client size, and a
\* resize event is due
ViewportResized(size) ==
  /\ renderer.size = mount
  /\ size # mount
  /\ mount' = size
  /\ UNCHANGED <<plyData, isLoading, loadingProgress, error, splatDataAvailable,
                 transformations, crop, renderMode, stats, loads, nLoads, lastHandler,
                 scene, pointsRef, nextId, effectLog, plyDirty, uniDirty, frame,
                 appearance, camera, renderer>>

\* handleResize without the block that updates u_focal
HandleResizeKeepsFocal(objects, ref, focal) == objects

\* `if (pointsRef.current) { ... material.uniforms.u_focal.value = ... }`
HandleResizeFocal(objects, ref, focal) ==
  {IF o.id = ref THEN [o EXCEPT !.material.uniforms.u_focal = focal] ELSE o :
     o \in objects}

\* handleResize, the listener of the window's resize event
HandleResize ==
  /\ renderer.size # mount
  /\ camera' = [camera EXCEPT !.aspect = Ratio(mount.clientWidth, mount.clientHeight)]
  /\ renderer' = [size |-> mount]
  /\ scene' = HandleResizeFocal(scene, pointsRef,
                                Focal(mount.clientHeight, camera'))
  /\ frame' = NoFrame
  /\ UNCHANGED <<plyData, isLoading, loadingProgress, error, splatDataAvailable,
                 transformations, crop, renderMode, stats, loads, nLoads, lastHandler,
                 pointsRef, nextId, effectLog, plyDirty, uniDirty, appearance, mount>>

\* ----------------------------------------------------- the control panel
\* the values a crop slider of an axis is moved to: it ranges over
\* [dataBounds.min, dataBounds.max] of the axis; here its two ends
SliderValues(a) ==
  IF plyData = Null THEN {}
  ELSE LET lo == plyData.boundingBox.min[a]
           hi == plyData.boundingBox.max[a]
       IN  IF lo > hi THEN {} ELSE {lo, hi}

Commit(op) ==
  /\ lastHandler' = Handler(op, NoBefore, NoLoad, <<>>)
  /\ loads' = Disturbed(loads)
  /\ frame' = NoFrame

\* the select offering Splat whatever the dataset
RenderModeOptionsAll(available) == {ORIGINAL, COLORMAP, SPLAT}

\* the options of the render mode select: Splat is one when
\* splatDataAvailable
RenderModeOptions(available) ==
  {ORIGINAL, COLORMAP} \cup (IF available THEN {SPLAT} ELSE {})

\* the render mode select
SetRenderMode(m) ==
  /\ ~plyDirty /\ ~uniDirty
  /\ m \in RenderModeOptions(splatDataAvailable)
  /\ m # renderMode
  /\ renderMode' = m
  /\ uniDirty' = TRUE
  /\ Commit("control")
  /\ UNCHANGED <<plyData, isLoading, loadingProgress, error, splatDataAvailable,
                 transformations, crop, stats, nLoads, scene, pointsRef,
                 nextId, effectLog, plyDirty, appearance, mount, camera, renderer>>

\* the Enable Cropping toggle
ToggleCrop ==
  /\ ~plyDirty /\ ~uniDirty
  /\ crop' = [crop EXCEPT !.enabled = ~crop.enabled]
  /\ uniDirty' = TRUE
  /\ Commit("control")
  /\ UNCHANGED <<plyData, isLoading, loadingProgress, error, splatDataAvailable,
                 transformations, renderMode, stats, nLoads, scene, pointsRef,
                 nextId, effectLog, plyDirty, appearance, mount, camera, renderer>>

\* the six crop sliders, shown when there is a dataset and cropping is on
SetCropBound(side, a, v) ==
  /\ ~plyDirty /\ ~uniDirty
  /\ plyData # Null /\ crop.enabled
  /\ v \in SliderValues(a)
  /\ v # crop[side][a]
  /\ crop' = [crop EXCEPT ![side][a] = v]
  /\ uniDirty' = TRUE
  /\ Commit("control")
  /\ UNCHANGED <<plyData, isLoading, loadingProgress, error, splatDataAvailable,
                 transformations, renderMode, stats, nLoads, scene, pointsRef,
                 nextId, effectLog, plyDirty, appearance, mount, camera, renderer>>

\* the Reset View button: resetControls (resetCamera moves the camera only)
ResetControls ==
  /\ ~plyDirty /\ ~uniDirty
  /\ transformations' = defaultTransformations
  /\ crop' = IF plyData # Null
             THEN [min |-> plyData.boundingBox.min, max |-> plyData.boundingBox.max,
                   enabled |-> FALSE]
             ELSE crop
  /\ uniDirty' = TRUE
  /\ Commit("control")
  /\ UNCHANGED <<plyData, isLoading, loadingProgress, error, splatDataAvailable,
                 renderMode, stats, nLoads, scene, pointsRef, nextId,
                 effectLog, plyDirty, appearance, mount, camera, renderer>>

\* the values an appearance slider is moved to, in hundredths: the end
\* of its range away from where it starts, and back
AppearanceValues(field) ==
  IF field = "pointSize" THEN {500, 2000}
  ELSE IF field = "opacity" THEN {0, 100}
  ELSE {100, 200}

\* the Point Size or Splat Scale slider (whichever is shown) and the
\* Opacity slider
SetAppearance(field, v) ==
  /\ ~plyDirty /\ ~uniDirty
  /\ field \in {"opacity"} \cup
       (IF renderMode = SPLAT /\ splatDataAvailable THEN {"splatScale"}
        ELSE {"pointSize"})
  /\ v \in AppearanceValues(field)
  /\ v # appearance[field]
  /\ appearance' = [appearance EXCEPT ![field] = v]
  /\ uniDirty' = TRUE
  /\ Commit("control")
  /\ UNCHANGED <<plyData, isLoading, loadingProgress, error, splatDataAvailable,
                 transformations, crop, renderMode, stats, nLoads, scene, pointsRef,
                 nextId, effectLog, plyDirty, mount, camera, renderer>>

\* THREE.MathUtils.degToRad, in thousandths of a radian
DegToRad(deg) == (deg * 3141593) \div 180000

\* the values a Transform slider is moved to: the upper end of its range
\* (scale 5, 180 degrees, translation 5)
TransformValues(field) ==
  IF field = "scale" THEN {5}
  ELSE IF field = "rotation" THEN {DegToRad(180)}
  ELSE {5}

\* the Transform sliders: Scale, Rotate X/Y/Z, Translate X/Y/Z
SetTransformation(field, a, v) ==
  /\ ~plyDirty /\ ~uniDirty
  /\ v \in TransformValues(field)
  /\ transformations' =
       IF field = "scale" THEN [transformations EXCEPT !.scale = v]
       ELSE [transformations EXCEPT ![field][a] = v]
  /\ transformations' # transformations
  /\ uniDirty' = TRUE
  /\ Commit("control")
  /\ UNCHANGED <<plyData, isLoading, loadingProgress, error, splatDataAvailable,
                 crop, renderMode, stats, nLoads, scene, pointsRef, nextId,
                 effectLog, plyDirty, appearance, mount, camera, renderer>>

\* ------------------------------------------------------ the specifications
Init ==
  /\ pfile = ClassicFile /\ pread = TRUE /\ pres = NotRun
  /\ AppStart

\* the progress events of the FileReader for a file of a size
ProgressEvents(total) ==
  [lengthComputable : BOOLEAN, loaded : Chunks(total), total : {total}]

Next ==
  \/ \E f \in AppFiles : LoadFromDisk(f) /\ UNCHANGED pvars
  \/ \E l \in loads : \E e \in ProgressEvents(ByteLength(l.file)) :
       ReaderProgress(l, e) /\ UNCHANGED pvars
  \/ \E l \in loads, ok \in BOOLEAN : LoadResolved(l, ok) /\ UNCHANGED pvars
  \/ \E l \in loads, ok \in BOOLEAN : LoadRejected(l, ok) /\ UNCHANGED pvars
  \/ FlushEffects /\ UNCHANGED pvars
  \/ Animate /\ UNCHANGED pvars
  \/ \E m \in {ORIGINAL, COLORMAP, SPLAT} : SetRenderMode(m) /\ UNCHANGED pvars
  \/ ToggleCrop /\ UNCHANGED pvars
  \/ \E side \in {"min", "max"}, a \in 1..3 : \E v \in SliderValues(a) :
       SetCropBound(side, a, v) /\ UNCHANGED pvars
  \/ ResetControls /\ UNCHANGED pvars

\* the application
Spec == Init /\ [][Next]_vars

\* the FileReader of a load in flight fires its load or error event
LoadEnds ==
  \E l \in loads, ok \in BOOLEAN :
    (LoadResolved(l, ok) \/ LoadRejected(l, ok)) /\ UNCHANGED pvars

\* The application with its scheduling: the event loop dispatches every
\* load or error event a FileReader queues, however many events of
\* the control panel and frames come, and React runs the effects of a
\* commit before it handles the next update.
SpecLive ==
  Spec /\ SF_vars(LoadEnds) /\ WF_vars(FlushEffects /\ UNCHANGED pvars)

NextParse == LoadPlyRun /\ UNCHANGED appvars

\* loadPly alone, on every generated file
InitParse == ParseStart /\ AppStart

SpecParse == InitParse /\ [][NextParse]_vars

\* handleLoad alone, called while earlier calls are still in flight
NextHandleLoad ==
  \/ \E f \in AppFiles : HandleLoadStart(f) /\ UNCHANGED pvars
  \/ \E l \in loads : \E e \in ProgressEvents(ByteLength(l.file)) :
       ReaderProgress(l, e) /\ UNCHANGED pvars
  \/ \E l \in loads, ok \in BOOLEAN : LoadResolved(l, ok) /\ UNCHANGED pvars
  \/ \E l \in loads, ok \in BOOLEAN : LoadRejected(l, ok) /\ UNCHANGED pvars
  \/ FlushEffects /\ UNCHANGED pvars

SpecHandleLoad == Init /\ [][NextHandleLoad]_vars

\* the application's settings: loads and the sliders and selects of the
\* control panel (of the Rotate and Translate sliders, those of the x axis)
NextSettings ==
  \/ \E f \in AppFiles : LoadFromDisk(f) /\ UNCHANGED pvars
  \/ \E l \in loads, ok \in BOOLEAN : LoadResolved(l, ok) /\ UNCHANGED pvars
  \/ \E l \in loads, ok \in BOOLEAN : LoadRejected(l, ok) /\ UNCHANGED pvars
  \/ FlushEffects /\ UNCHANGED pvars
  \/ \E m \in {ORIGINAL, COLORMAP, SPLAT} : SetRenderMode(m) /\ UNCHANGED pvars
  \/ ToggleCrop /\ UNCHANGED pvars
  \/ ResetControls /\ UNCHANGED pvars
  \/ \E field \in {"pointSize", "opacity", "splatScale"} :
       \E v \in AppearanceValues(field) : SetAppearance(field, v) /\ UNCHANGED pvars
  \/ \E field \in {"scale", "rotation", "position"}, a \in {1} :
       \E v \in TransformValues(field) :
         SetTransformation(field, a, v) /\ UNCHANGED pvars

SpecSettings == Init /\ [][NextSettings]_vars

\* loads while the window is resized
NextViewport ==
  \/ \E f \in AppFiles : LoadFromDisk(f) /\ UNCHANGED pvars
  \/ \E l \in loads, ok \in BOOLEAN : LoadResolved(l, ok) /\ UNCHANGED pvars
  \/ \E l \in loads, ok \in BOOLEAN : LoadRejected(l, ok) /\ UNCHANGED pvars
  \/ FlushEffects /\ UNCHANGED pvars
  \/ \E size \in ViewportSizes : ViewportResized(size) /\ UNCHANGED pvars
  \/ HandleResize /\ UNCHANGED pvars

SpecViewport == Init /\ [][NextViewport]_vars

\* ====================================================================
\* Properties of the application
\* ====================================================================
\* ------------------------------------------------------------------- C1
\* C1: when a load fails, the dataset that was current before the attempt
\* is still plyData afterwards, and the point count, the render mode and
\* the splat availability are what they were before the attempt (for a
\* load that began with a dataset of at least one point on display and
\* during which no other handler ran).
C1_FailedLoadKeepsDataset ==
  (/\ lastHandler.op = "rejected"
   /\ lastHandler.before.quiet
   /\ lastHandler.before.pointCount.v > 0) =>
    /\ plyData = lastHandler.before.plyData
    /\ stats.pointCount = lastHandler.before.pointCount
    /\ renderMode = lastHandler.before.renderMode
    /\ splatDataAvailable = lastHandler.before.splatDataAvailable

\* ------------------------------------------------------------------- C5
\* the positions of the steps of a kind in the last run of the effect
StepsOf(ops) == {i \in 1..Len(effectLog) : effectLog[i].op \in ops}

\* C5: when a new dataset replaces a previous one, the geometry and the
\* material of the old points object are disposed after the new points
\* object has been built and added to the scene, never before.
C5_DisposedAfterInstalled ==
  \A i \in StepsOf({"disposeGeometry", "disposeMaterial"}) :
    \A j \in StepsOf({"build", "add"}) : j < i

\* ------------------------------------------------------------------- C6
\* the attribute buffers of a geometry are those of one dataset
BuiltFrom(g, data) ==
  /\ g.position = data.positions
  /\ g.color = data.colors
  /\ g.elevation = data.elevations
  /\ g.boundingBox = data.boundingBox
  /\ IF data.scales.present /\ data.rotations.present
     THEN g.a_scale = data.scales /\ g.a_rotation = data.rotations
     ELSE ~g.a_scale.present /\ ~g.a_rotation.present

\* the datasets loadPly returns for the files of the application
AppDatasets ==
  {OutcomeOf(f, TRUE).data : f \in {g \in AppFiles : OutcomeOf(g, TRUE).status = "ok"}}

InCropBox(p, u) ==
  \A a \in 1..3 : u.u_crop_min[a] <= p[a] /\ p[a] <= u.u_crop_max[a]

\* a position lies on a face of the crop box
OnCropBoundary(p, u) ==
  \E a \in 1..3 : p[a] = u.u_crop_min[a] \/ p[a] = u.u_crop_max[a]

\* C9: the crop test is inclusive at its boundaries.  In every frame, with
\* cropping enabled a point inside the closed box [min, max], its faces
\* included, is not flagged by the crop test and a point strictly outside
\* on some axis is flagged; with cropping disabled no point is flagged.
C9_CropInclusive ==
  frame.ran =>
    \A d \in frame.drawn : \A i \in PointsOf(d.obj) :
      LET p == PositionOf(d.obj, i)
          u == d.obj.material.uniforms
      IN  /\ (u.u_crop_enabled /\ InCropBox(p, u)) => ~d.cropFlag[i]
          /\ (u.u_crop_enabled /\ ~InCropBox(p, u)) => d.cropFlag[i]
          /\ ~u.u_crop_enabled => ~d.cropFlag[i]

\* a frame with cropping enabled that kept a point on a face of the box
\* and flagged another strictly outside it
C9_WitnessBoundaryKept ==
  /\ frame.ran
  /\ \E d \in frame.drawn : \E i, k \in PointsOf(d.obj) :
       LET u == d.obj.material.uniforms
       IN  /\ u.u_crop_enabled
           /\ InCropBox(PositionOf(d.obj, i), u)
           /\ OnCropBoundary(PositionOf(d.obj, i), u)
           /\ ~d.cropFlag[i]
           /\ ~InCropBox(PositionOf(d.obj, k), u)
           /\ d.cropFlag[k]

\* ------------------------------------------------------------------ C12
RatioLeq(p, q) == p.num * q.den <= q.num * p.den

\* C12: every onProgress call of a load is made by the FileReader's
\* progress handler while the bytes are read, none while or after the
\* header is parsed and the records are decoded; each value reported lies
\* in [0, 1] and is no smaller than the value the same load reported before.
C12_ProgressOnlyWhileReading ==
  \A k \in 1..Len(lastHandler.calls) :
    LET c == lastHandler.calls[k]
    IN  /\ lastHandler.op = "progress"
        /\ c.during = "read"
        /\ c.value.den > 0
        /\ 0 <= c.value.num /\ c.value.num <= c.value.den
        /\ RatioLeq(c.after, c.value)

\* a load reports progress a second time while another load is in flight
C12_WitnessSecondReport ==
  /\ lastHandler.op = "progress"
  /\ Len(lastHandler.calls) = 1
  /\ lastHandler.calls[1].after.num > 0
  /\ lastHandler.calls[1].value.num = lastHandler.calls[1].value.den
  /\ Cardinality(loads) = 2

\* ------------------------------------------------------------------ C13
\* the load whose end was the last handler to run, and its result
LastEnded == lastHandler.load
LastResult == OutcomeOf(LastEnded.file, LastEnded.readOk)

\* what the end of a load writes is that load's own result
WritesOwnResult ==
  /\ ~isLoading /\ loadingProgress.num = 0
  /\ IF lastHandler.op = "resolved"
     THEN /\ LastResult.status = "ok"
          /\ plyData = LastResult.data
          /\ stats.pointCount = LastResult.data.pointCount
          /\ splatDataAvailable
               = (LastResult.data.scales.present /\ LastResult.data.rotations.present)
          /\ renderMode = (IF splatDataAvailable THEN SPLAT ELSE ORIGINAL)
          /\ crop = [min |-> LastResult.data.boundingBox.min,
                     max |-> LastResult.data.boundingBox.max, enabled |-> FALSE]
          /\ transformations = defaultTransformations
     ELSE /\ LastResult.status = "error"
          /\ error = LastResult.error
          /\ plyData = Null
          /\ stats.pointCount = Num(0)

\* C13 as stated: once every load requested has ended, the application
\* state is the outcome of the load that ended last, as if it had run
\* alone: after a success no error message is shown, after a failure no
\* splat data is available and the render mode is Original.
C13_StateIsLastOutcome ==
  (lastHandler.op \in {"resolved", "rejected"} /\ loads = {}) =>
    /\ WritesOwnResult
    /\ IF lastHandler.op = "resolved"
       THEN error = ""
       ELSE ~splatDataAvailable /\ renderMode = ORIGINAL

\* C13, amended: loads are neither cancelled nor ordered by request time;
\* when a load ends, whichever loads were requested or ended meanwhile, its
\* own result is written: after a success plyData, the point count, the
\* splat availability, the render mode, the crop box and the transform are
\* its own; after a failure plyData is null, the point count 0 and the
\* error message its own.  What the end of a load does not write stays as
\* the other load left it: the error message after a success; the splat
\* availability and the render mode after a failure.
C13_LastEndedWritesResult ==
  lastHandler.op \in {"resolved", "rejected"} =>
    /\ WritesOwnResult
    /\ (lastHandler.op = "resolved" /\ error # "") =>
         \E f \in AppFiles, ok \in BOOLEAN :
           OutcomeOf(f, ok).status = "error" /\ error = OutcomeOf(f, ok).error

\* the load requested first ended last and succeeded, after the load
\* requested second had ended in failure
C13_WitnessFirstEndsLast ==
  /\ lastHandler.op = "resolved"
  /\ LastEnded.id = 1
  /\ nLoads = 2
  /\ loads = {}
  /\ error # ""

\* ------------------------------------------------------------------ C14
\* C14: in every frame, for every point of every object drawn, the discard
\* flag is set exactly when cropping is enabled and the point lies outside
\* the crop box, or the render mode is Splat and the determinant of the
\* projected covariance is <= 0; a flag set by the crop test is still set
\* after the splat block; and a flagged point writes no fragment.
C14_DiscardFlag ==
  frame.ran =>
    \A d \in frame.drawn : \A i \in PointsOf(d.obj) :
      LET p == PositionOf(d.obj, i)
          u == d.obj.material.uniforms
      IN  /\ d.v_discard[i] <=>
               \/ (u.u_crop_enabled /\ ~InCropBox(p, u))
               \/ (u.u_render_mode = SPLAT /\ i \in d.degenerate)
          /\ d.cropFlag[i] => d.v_discard[i]
          /\ d.v_discard[i] => ~d.fragment[i]

\* a frame in Splat mode with a point the crop test flagged whose
\* determinant is positive, and a point flagged for its determinant alone
C14_WitnessCropThenSplat ==
  /\ frame.ran
  /\ \E d \in frame.drawn : \E i, k \in PointsOf(d.obj) :
       /\ d.obj.material.uniforms.u_render_mode = SPLAT
       /\ d.obj.geometry.a_scale.present
       /\ d.cropFlag[i] /\ i \notin d.degenerate /\ d.v_discard[i]
       /\ ~d.cropFlag[k] /\ k \in d.degenerate /\ d.v_discard[k]

\* ------------------------------------------------------------------ C15
\* an object of the scene carries the splat attributes
CarriesSplat(o) == o.geometry.a_scale.present /\ o.geometry.a_rotation.present

\* C15: in every reachable state the splat path is taken only for a
\* dataset with scales and rotations: the render mode is Splat only while
\* plyData has both, an object of the scene has u_render_mode = 2 only if
\* it carries the a_scale and a_rotation attributes, and every frame draws
\* an object without them with u_render_mode # 2, on the simple-point path.
C15_SplatPathOnlyWithSplatData ==
  /\ renderMode = SPLAT =>
       /\ splatDataAvailable
       /\ plyData # Null
       /\ plyData.scales.present /\ plyData.rotations.present
  /\ \A o \in scene : o.material.uniforms.u_render_mode = SPLAT => CarriesSplat(o)
  /\ frame.ran =>
       \A d \in frame.drawn :
         ~CarriesSplat(d.obj) => d.obj.material.uniforms.u_render_mode # SPLAT

\* a classic dataset is drawn in the scene after a splat dataset was shown
\* in Splat mode: the load of the classic file began in Splat mode
C15_WitnessClassicAfterSplat ==
  /\ frame.ran
  /\ lastHandler.op = "resolved"
  /\ lastHandler.before.renderMode = SPLAT
  /\ \E d \in frame.drawn : ~CarriesSplat(d.obj) /\ Len(d.obj.geometry.position) > 0

\* ------------------------------------------------------------------ C16
\* fy = height / (2 tan(fov / 2)) and fx = fy * aspect for the mount
\* element's current size, as terms
ExpectedFocal ==
  LET fy == [height |-> mount.clientHeight, fov |-> Fov]
  IN  [y |-> fy,
       x |-> [focal_y |-> fy,
              aspect |-> Ratio(mount.clientWidth, mount.clientHeight)]]

\* C16: after any sequence of window resizes and loads, once the resize
\* event of the last size change has been handled, the u_focal uniform of
\* the points object (when there is one) is the value derived from the
\* camera's field of view and the current viewport height and aspect; it
\* is not left from an earlier viewport size.
C16_FocalFollowsViewport ==
  renderer.size = mount =>
    \A o \in scene :
      o.id = pointsRef => o.material.uniforms.u_focal = ExpectedFocal

\* the points object exists, the effects have run and the viewport has a
\* height and an aspect other than those the page opened with
C16_WitnessResized ==
  /\ renderer.size = mount
  /\ mount.clientHeight # InitialViewport.clientHeight
  /\ ~plyDirty /\ ~uniDirty
  /\ \E o \in scene : o.id = pointsRef

\* ------------------------------------------------------------------ C17
\* the raw quaternion (rot_0, rot_1, rot_2, rot_3) of record i of a file
RawQuaternion(file, i) ==
  <<WrittenIn(file, i, "rot_0"), WrittenIn(file, i, "rot_1"),
    WrittenIn(file, i, "rot_2"), WrittenIn(file, i, "rot_3")>>

SumOfSquares(r) == r[1] * r[1] + r[2] * r[2] + r[3] * r[3] + r[4] * r[4]

C18_SuccessResetsSettings ==
  lastHandler.op = "resolved" =>
    \E data \in {OutcomeOf(lastHandler.load.file, lastHandler.load.readOk).data} :
      /\ plyData = data
      /\ stats.pointCount = data.pointCount
      /\ splatDataAvailable = (data.scales.present /\ data.rotations.present)
      /\ renderMode = (IF data.scales.present /\ data.rotations.present
                       THEN SPLAT ELSE ORIGINAL)
      /\ crop.min = data.boundingBox.min /\ crop.max = data.boundingBox.max
      /\ ~crop.enabled
      /\ transformations.position = <<0, 0, 0>>
      /\ transformations.rotation = <<0, 0, 0>>
      /\ transformations.scale = 1

\* a load succeeded that was requested with the object scaled and rotated,
\* cropping enabled and the colormap selected, over a dataset with the
\* splat extension
C18_WitnessSettingsChanged ==
  /\ lastHandler.op = "resolved"
  /\ lastHandler.before.changed
  /\ lastHandler.before.renderMode = COLORMAP
  /\ lastHandler.before.splatDataAvailable
  /\ plyData # lastHandler.before.plyData

\* ------------------------------------------------------------------ C19
\* C19: the loading flag tracks the life of a load.  isLoading is true
\* exactly while a load is in flight; at most one load is in flight at a
\* time, the button being disabled while isLoading; the end of a load, by
\* success or failure, leaves isLoading false and loadingProgress 0; and
\* whenever a load is in flight it comes to such an end.
C19_LoadingTracksLoad ==
  /\ [](/\ isLoading <=> loads # {}
        /\ Cardinality(loads) <= 1
        /\ lastHandler.op \in {"resolved", "rejected"} =>
             ~isLoading /\ loadingProgress.num = 0 /\ loads = {})
  /\ (loads # {}) ~>
       (/\ lastHandler.op \in {"resolved", "rejected"}
        /\ loads = {}
        /\ ~isLoading /\ loadingProgress.num = 0)

\* the second load of a behaviour is in flight and has reported progress,
\* the first one has ended
C19_WitnessSecondInFlight ==
  /\ isLoading
  /\ nLoads = 2
  /\ Cardinality(loads) = 1
  /\ loadingProgress.num # 0

\* ------------------------------------------------------------------ C20
\* C20: after any sequence of loads and control changes, once the effects
\* of the last commit have run, the points object pointsRef holds (when
\* there is one) has u_render_mode = renderMode, u_crop_min, u_crop_max and
\* u_crop_enabled equal to crop, u_point_size, u_opacity and u_splat_scale
\* equal to appearance, and position, rotation and scale equal to
\* transformations; this holds too for an object just built for a new
\* dataset.
C20_UniformsFollowState ==
  (~plyDirty /\ ~uniDirty) =>
    \A o \in scene :
      o.id = pointsRef =>
        /\ o.material.uniforms.u_render_mode = renderMode
        /\ o.material.uniforms.u_crop_min = crop.min
        /\ o.material.uniforms.u_crop_max = crop.max
        /\ o.material.uniforms.u_crop_enabled = crop.enabled
        /\ o.material.uniforms.u_point_size = appearance.pointSize
        /\ o.material.uniforms.u_opacity = appearance.opacity
        /\ o.material.uniforms.u_splat_scale = appearance.splatScale
        /\ o.position = transformations.position
        /\ o.rotation = transformations.rotation
        /\ o.scale = transformations.scale

\* the effects have run for the object of a second dataset, and since it
\* was loaded the opacity, the scale, the rotation, the crop toggle and the
\* render mode have been changed
C20_WitnessSecondObject ==
  /\ ~plyDirty /\ ~uniDirty
  /\ pointsRef = 2
  /\ \E o \in scene : o.id = pointsRef
  /\ appearance.opacity # defaultAppearance.opacity
  /\ transformations.scale # 1
  /\ transformations.rotation # <<0, 0, 0>>
  /\ crop.enabled
  /\ renderMode = COLORMAP

====
